---- MODULE Spec2Model ----
(***************************************************************************)
(* Model of sec_filing_bot.  The feedback ingestor                         *)
(* (scripts/process_telegram_feedback.py) is a one-shot batch job that     *)
(* pulls Telegram updates from a persisted offset, turns button presses    *)
(* into rows of an append-only feedback log and then persists the new      *)
(* offset; _build_event_type_keyboard builds the picker of its prompt; the *)
(* classifier (event_classifier.py) scores a text against a rule table.    *)
(* The alert pipeline: extract_snippets (evidence_snippets.py) cuts the    *)
(* evidence out of a text, run_once (main.py) alerts for the filings it    *)
(* has not seen, _send_message (telegram_notifier.py) sends with retries   *)
(* on rate limiting, SecHttpClient.get (sec_archives.py) fetches with      *)
(* retries.  The texts of extract_snippets are sequences of characters.    *)
(*                                                                         *)
(* Strings that the code parses are sequences of symbols: a symbol is one  *)
(* colon-free, space-free run of characters, ":" or " ".  An Optional      *)
(* value is <<>> (None) or <<v>>.  The created_at timestamp of a row is    *)
(* left out: nothing reads it.                                             *)
(***************************************************************************)
EXTENDS Integers, Sequences, FiniteSets, TLC

VARIABLES
    stream,        \* the updates the users produce, in update_id order
    log,           \* feedback_labels.jsonl: the rows appended so far
    offsetFile,    \* feedback_offset.txt: <<>> when missing, else <<n>>
    pc,            \* per invocation: "idle", "loop", "append" or "save"
    seen,          \* process_updates: seen
    last_offset,   \* process_updates: last_offset
    updates,       \* process_updates: updates (the fetched batch)
    idx,           \* position of the for-loop in updates
    max_update_id, \* process_updates: max_update_id
    new_rows,      \* process_updates: new_rows
    sent,          \* the calls to the Bot API that returned in this run, in
                   \* order (the code does not look at the status of the answer)
    rejected,      \* the positions in sent of the calls that the Bot API
                   \* answered with an error status
    \* What stays on record of a run after it has ended:
    appended,      \* how many rows its append loop wrote
    outcome,       \* how it ended: none/noop/raised/crashed/completed
    fault,         \* the call that failed in it, or "none"
    got,           \* the update ids of the batch it fetched
    start,         \* the offset file it found when it started
    recovering,    \* "crashed"/"raised" when the run before it wrote rows,
                   \* ended that way and had fetched the same updates;
                   \* "replay" when the run before it completed and every
                   \* update id it fetched is in the log; "prompt" when the
                   \* run before it raised in sendMessage and had fetched
                   \* the same updates; else "no"
    overlap,       \* has a run started while another one was running?
    \* _build_event_type_keyboard:
    accession,     \* its argument accession
    suggested,     \* its argument suggested
    ev,            \* position of its for-loop in ALL_EVENT_TYPES
    row,           \* its local row
    keyboard,      \* its local keyboard
    kpc,           \* "idle", "loop" or "done" (returned)
    \* classify_event:
    plain_text,    \* its argument, as far as the rules can tell texts apart
    result,        \* <<>> until it returns, then <<(event_type, confidence)>>
    \* extract_snippets:
    snippet_text,  \* its argument plain_text, a sequence of characters
    phrases,       \* its argument phrases
    window_chars,  \* its argument window_chars
    max_snippets,  \* its argument max_snippets
    max_snippet_len, \* its argument max_snippet_len
    snippets,      \* what it returned
    found_at,      \* for each returned snippet, the idx at which its phrase
                   \* was found
    epc,           \* "idle", "called" or "done" (returned)
    \* run_once, called again and again with the set it returned:
    seen_accessions, \* its argument and result seen
    digest_mode,   \* config.ALERT_DIGEST_BY_GROUP
    todo,          \* digest mode: the groups still to send; per-filing
                   \* mode: the new filings still to handle
    alerted,       \* how many alerts were sent successfully, per accession
    rpc,           \* "off", "idle" (between calls), "loop" or "send"
    \* _send_message:
    configured,    \* are TELEGRAM_BOT_TOKEN and TELEGRAM_CHAT_ID both set?
    attempt,       \* its loop variable attempt
    errors,        \* the errors bot.send_message raised so far, in order
    slept,         \* the waits it slept so far, in order
    send_result,   \* <<>> while it runs, <<"True">>/<<"False">> when it
                   \* returned, <<"raise", e>> when it raised the error e
    \* SecHttpClient.get:
    http_attempt,  \* its loop variable attempt
    responses,     \* what requests.get answered so far, in order
    delays,        \* the backoff delays it slept so far, in order
    get_result     \* <<>> while it runs, <<"content", r>> when it returned
                   \* the body of r, <<"raise", r>> when it raised for r

\* The state of the feedback job.
feedback == <<stream, log, offsetFile, pc, seen, last_offset, updates, idx,
              max_update_id, new_rows, sent, rejected, appended, outcome,
              fault, got, start, recovering, overlap>>

\* The state of one call of _build_event_type_keyboard.
building == <<accession, suggested, ev, row, keyboard, kpc>>

\* The state of one call of classify_event.
classifying == <<plain_text, result>>

\* The state of one call of extract_snippets.
extracting == <<snippet_text, phrases, window_chars, max_snippets,
                max_snippet_len, snippets, found_at, epc>>

\* The state of the polling loop around run_once.
alerting == <<seen_accessions, digest_mode, todo, alerted, rpc>>

\* The state of one call of _send_message.
sending == <<configured, attempt, errors, slept, send_result>>

\* The state of one call of SecHttpClient.get.
fetching == <<http_attempt, responses, delays, get_result>>

\* The alert pipeline: what neither the feedback job, nor the keyboard, nor
\* the classifier touches.
pipeline == <<extracting, alerting, sending, fetching>>

\* What the feedback job leaves alone.
others == <<building, classifying, pipeline>>

vars == <<feedback, others>>

\* ------------------------------------------------------------------ bounds

\* How many updates the users produce.
MaxStream == 2
\* How many updates one getUpdates answer holds.
MaxBatch == 2

\* ------------------------------------------------------------- vocabulary

PREF_CALL == "PREF_CALL"
DIV_SUSPENSION == "DIV_SUSPENSION"
NOT_RELEVANT == "NOT_RELEVANT"
PREF_PARTIAL_CALL == "PREF_PARTIAL_CALL"
PREF_NEW_ISSUE == "PREF_NEW_ISSUE"
CEF_DISTRIBUTION_CHANGE == "CEF_DISTRIBUTION_CHANGE"
OFFERING == "OFFERING"
RIGHTS_OFFERING == "RIGHTS_OFFERING"
TENDER_OFFER == "TENDER_OFFER"
EXCHANGE_OFFER == "EXCHANGE_OFFER"
LIQUIDATION_TERMINATION == "LIQUIDATION_TERMINATION"
EARNINGS == "EARNINGS"
GENERIC_NEWS == "GENERIC_NEWS"

\* The picker lists NOT_RELEVANT as well.
ALL_EVENT_TYPES_WithSentinel ==
    <<PREF_CALL, PREF_PARTIAL_CALL, PREF_NEW_ISSUE, DIV_SUSPENSION, OFFERING,
      RIGHTS_OFFERING, TENDER_OFFER, EXCHANGE_OFFER, CEF_DISTRIBUTION_CHANGE,
      LIQUIDATION_TERMINATION, EARNINGS, GENERIC_NEWS, NOT_RELEVANT>>

\* The enumeration exposed to pickers, in its order; NOT_RELEVANT is not in it.
ALL_EVENT_TYPES ==
    <<PREF_CALL, PREF_PARTIAL_CALL, PREF_NEW_ISSUE, DIV_SUSPENSION, OFFERING,
      RIGHTS_OFFERING, TENDER_OFFER, EXCHANGE_OFFER, CEF_DISTRIBUTION_CHANGE,
      LIQUIDATION_TERMINATION, EARNINGS, GENERIC_NEWS>>

\* The chat the bot is configured for, and another one.
ChatId == "chat"
OtherChat == "other"

\* An accession number, as the alert buttons carry it.
Accession == "0001193125-24-000123"

None == <<>>
Some(v) == <<v>>

\* A string made of one symbol.
Str(sym) == <<sym>>

\* The tokens (callback_data) the buttons of this bot carry, and one with a
\* prefix the bot does not know.
TokOk == <<"ok", ":", Accession, ":", PREF_CALL>>
TokWrong == <<"wrong", ":", Accession, ":", PREF_CALL>>
TokSet == <<"set", ":", Accession, ":", PREF_CALL, ":", DIV_SUSPENSION>>
TokIrrelevant == <<"irrelevant", ":", Accession, ":", PREF_CALL>>
TokUnknown == <<"noop", ":", Accession, ":", PREF_CALL>>

Tokens == {TokOk, TokWrong, TokSet, TokIrrelevant, TokUnknown}

\* Tokens of other shapes: too few fields for its prefix, and no data at all.
TokShort == <<"ok", ":", Accession>>
TokEmpty == <<>>

\* What an update carries besides its update_id: a button press
\* (callback_query) with the chat of its message, its id and its data, or
\* something else (cq = FALSE).  cq_id is filled in from the update id.
\* Every update of the Bot API has an update_id, so the "uid is not None"
\* tests of the loop are always true here.
Contents ==
    {[cq |-> TRUE, chat |-> ChatId, data |-> t] : t \in Tokens}
    \cup {[cq |-> TRUE, chat |-> OtherChat, data |-> TokOk]}
    \cup {[cq |-> FALSE, chat |-> OtherChat, data |-> <<>>]}

\* Button presses of the configured chat with tokens of every shape the loop
\* tells apart: two recognized ones and three that are not.
ShapeContents ==
    {[cq |-> TRUE, chat |-> ChatId, data |-> t] :
        t \in {TokOk, TokWrong, TokUnknown, TokShort, TokEmpty}}

Update(uid, c) ==
    [update_id |-> uid, cq |-> c.cq, chat |-> c.chat,
     cq_id |-> IF c.cq THEN uid ELSE 0, data |-> c.data]

\* ------------------------------------------------------------ pure helpers

Max(a, b) == IF a >= b THEN a ELSE b

MinOf(S) == CHOOSE x \in S : \A y \in S : x <= y

RECURSIVE StripLeft(_)
StripLeft(s) ==
    IF s # <<>> /\ Head(s) = " " THEN StripLeft(Tail(s)) ELSE s

RECURSIVE StripRight(_)
StripRight(s) ==
    IF s # <<>> /\ s[Len(s)] = " "
    THEN StripRight(SubSeq(s, 1, Len(s) - 1))
    ELSE s

\* str.strip()
Strip(s) == StripRight(StripLeft(s))

\* str.split(":", maxsplit)
RECURSIVE Split(_, _)
Split(s, maxsplit) ==
    LET I == {i \in 1..Len(s) : s[i] = ":"}
    IN  IF maxsplit = 0 \/ I = {}
        THEN <<s>>
        ELSE LET i == MinOf(I)
             IN  <<SubSeq(s, 1, i - 1)>>
                 \o Split(SubSeq(s, i + 1, Len(s)), maxsplit - 1)

\* _load_offset: 0 when the file is missing.
LoadOffset(f) == IF f = <<>> THEN 0 ELSE f[1]

\* The de-duplication set is not rebuilt from the log.
SeenUpdateIdsEmpty(l) == {}

\* _seen_update_ids: the update ids of the rows of the log.
SeenUpdateIds(l) == {l[i].update_id : i \in 1..Len(l)}

\* The row the ok / set / irrelevant branches build.
Row(uid, acc, sug, corrected) ==
    [update_id |-> uid, accession_number |-> acc,
     suggested_event_type |-> sug, corrected_event_type |-> corrected]

AnswerCallback(cq_id, text) ==
    [method |-> "answerCallbackQuery", id |-> cq_id, text |-> text,
     accession |-> <<>>, suggested |-> <<>>]

\* The "Which event type?" prompt; its keyboard is built from (acc, suggested).
SendPrompt(acc, sug) ==
    [method |-> "sendMessage", id |-> 0, text |-> Str("Which event type?"),
     accession |-> acc, suggested |-> sug]

\* The part of the loop body before the token is looked at: is the update a
\* button press of the configured chat with data and an id?
Actionable(upd) ==
    /\ upd.cq
    /\ upd.chat = ChatId
    /\ Strip(upd.data) # <<>>
    /\ upd.cq_id # 0

Parts(upd) == Split(Strip(upd.data), 3)

\* Which branch of the if / elif chain the token takes.
Branch(upd) ==
    LET parts == Parts(upd)
        prefix == parts[1]
    IN  IF prefix = Str("ok") /\ Len(parts) >= 3 THEN "ok"
        ELSE IF prefix = Str("wrong") /\ Len(parts) >= 3 THEN "wrong"
        ELSE IF prefix = Str("set") /\ Len(parts) >= 4 THEN "set"
        ELSE IF prefix = Str("irrelevant") /\ Len(parts) >= 3 THEN "irrelevant"
        ELSE "other"

\* The set branch takes the corrected type from the third field.
BranchRowWrongField(upd) ==
    LET parts == Parts(upd)
        b == Branch(upd)
    IN  Row(upd.update_id, parts[2], parts[3],
            IF b = "ok" THEN None
            ELSE IF b = "set" THEN Some(parts[3])
            ELSE Some(Str(NOT_RELEVANT)))

\* The irrelevant branch leaves the corrected type null.
BranchRowNoSentinel(upd) ==
    LET parts == Parts(upd)
        b == Branch(upd)
    IN  Row(upd.update_id, parts[2], parts[3],
            IF b = "set" THEN Some(parts[4]) ELSE None)

\* The row of a row-building branch.
BranchRow(upd) ==
    LET parts == Parts(upd)
        b == Branch(upd)
    IN  Row(upd.update_id, parts[2], parts[3],
            IF b = "ok" THEN None
            ELSE IF b = "set" THEN Some(parts[4])
            ELSE Some(Str(NOT_RELEVANT)))

\* event_type_display_name, for the types the tokens above name; any other
\* tag is its own label.
DisplayName(tag) ==
    IF tag = Str(PREF_CALL) THEN Str("Redemption / Call")
    ELSE IF tag = Str(DIV_SUSPENSION) THEN Str("Dividend suspension / omission")
    ELSE IF tag = <<>> THEN Str("Filing")
    ELSE tag

\* The text of the acknowledgement of each branch (<<>> = no text).
AckText(upd) ==
    LET b == Branch(upd)
    IN  IF b = "ok" THEN Str("Thanks, marked as correct.")
        ELSE IF b = "set"
            THEN Str("Thanks, recorded as ") \o DisplayName(Parts(upd)[4]) \o Str(".")
        ELSE IF b = "irrelevant" THEN Str("Thanks, marked as not relevant.")
        ELSE <<>>

\* The idempotency check (lines 143-145) is left out.
FreshNoCheck(upd, s) == Actionable(upd)

\* Does this iteration of the loop get past the idempotency check / queue a
\* row / send the prompt, given the de-duplication set s?
Fresh(upd, s) == Actionable(upd) /\ upd.update_id \notin s
QueuesRow(upd, s) ==
    Fresh(upd, s) /\ Branch(upd) \in {"ok", "set", "irrelevant"}
Prompts(upd, s) == Fresh(upd, s) /\ Branch(upd) = "wrong"

\* The calls one iteration makes when none of them fails.
Calls(upd, s) ==
    IF ~Actionable(upd) THEN <<>>
    ELSE IF ~Fresh(upd, s) THEN <<AnswerCallback(upd.cq_id, <<>>)>>
    ELSE IF Prompts(upd, s)
        THEN <<AnswerCallback(upd.cq_id, <<>>),
               SendPrompt(Parts(upd)[2], Parts(upd)[3])>>
    ELSE <<AnswerCallback(upd.cq_id, AckText(upd))>>

\* The wrong branch does not mark its update as processed.
SeenAfterRowsOnly(upd, s) ==
    IF QueuesRow(upd, s) THEN s \cup {upd.update_id} ELSE s

\* seen after one iteration: the ok, wrong, set and irrelevant branches add
\* the update id, the default branch does not.
SeenAfter(upd, s) ==
    IF Fresh(upd, s) /\ Branch(upd) # "other"
    THEN s \cup {upd.update_id}
    ELSE s

\* The maximum starts below every update id instead of at last_offset - 1.
InitialMaxBelowAll(off) == -1

\* max_update_id when the loop starts (line 127).
InitialMax(off) == off - 1

\* Only the updates the loop acts on move the maximum.
MaxAfterActionableOnly(upd, m) ==
    IF Actionable(upd) THEN Max(m, upd.update_id) ELSE m

\* max_update_id after one iteration: every update counts (lines 130-132).
MaxAfter(upd, m) == Max(m, upd.update_id)

\* The offset is saved as soon as one row is appended.
AfterAppendSaveEarly(k, n) == "save"

\* Where the run goes after appending the k-th of n rows: the offset is
\* saved after the last one (lines 198-201).
AfterAppend(k, n) == IF k < n THEN "append" ELSE "save"

\* new_rows after one iteration.
RowsAfter(upd, s, rows) ==
    IF QueuesRow(upd, s) THEN Append(rows, BranchRow(upd)) ELSE rows

\* ------------------------------------------------------------ environment

\* The invocations of the job.  Scheduled runs are serialized: one invocation
\* (Job) runs again and again.
Procs == {1, 2}
Job == 1

\* The ids of the updates of a batch.
Ids(b) == {b[i].update_id : i \in 1..Len(b)}

Elems(b) == {b[i] : i \in 1..Len(b)}

MaxOf(S) == CHOOSE x \in S : \A y \in S : x >= y

\* The streams of at most n updates with contents of C; update ids count
\* from 1.
Streams(C, n) ==
    UNION {{[i \in 1..k |-> Update(i, f[i])] : f \in [1..k -> C]} : k \in 0..n}

\* The non-empty answers getUpdates(offset) can give: each holds updates of
\* the stream in update_id order, possibly more than once or again (an id
\* below the offset), and none of the updates from the offset up to the
\* highest id it holds is left out.  An update the users have not produced
\* yet is one that no answer holds so far.
Batches(off) ==
    {b \in UNION {[1..n -> Elems(stream)] : n \in 1..MaxBatch} :
        /\ \A i \in 1..(Len(b) - 1) : b[i].update_id <= b[i + 1].update_id
        /\ \A u \in Elems(stream) :
              (off <= u.update_id /\ u.update_id <= b[Len(b)].update_id)
                  => u \in Elems(b)}

\* ------------------------------------------------------------ process_updates

\* ------------------------------------------------------------ classify_event

\* Confidences are counted in hundredths.  Every rule of the table has the
\* same base, per_hit and cap, and the doubles that base + per_hit * (hits -
\* 1) yields for 1, 2, 3, 4 hits (0.3, 0.5, 0.7, 0.9000000000000001) are in
\* the order of, and equal between rules exactly as, 30, 50, 70, 90.
FallbackConf == 20
DefaultBase == 30
DefaultPerHit == 20
DefaultCap == 100

\* EventRule: the type, the priority and how many patterns the rule has.
EventRule(t, pri, n) ==
    [event_type |-> t, priority |-> pri, patterns |-> n,
     base |-> DefaultBase, per_hit |-> DefaultPerHit, cap |-> DefaultCap]

RULES ==
    <<EventRule(TENDER_OFFER, 100, 6),
      EventRule(EXCHANGE_OFFER, 95, 5),
      EventRule(PREF_PARTIAL_CALL, 90, 4),
      EventRule(PREF_CALL, 80, 9),
      EventRule(DIV_SUSPENSION, 70, 6),
      EventRule(RIGHTS_OFFERING, 85, 7),
      EventRule(OFFERING, 60, 8),
      EventRule(PREF_NEW_ISSUE, 65, 6),
      EventRule(CEF_DISTRIBUTION_CHANGE, 75, 8),
      EventRule(LIQUIDATION_TERMINATION, 78, 6),
      EventRule(EARNINGS, 72, 10)>>

RuleTypes == {RULES[i].event_type : i \in 1..Len(RULES)}

Min(a, b) == IF a <= b THEN a ELSE b

\* _count_regex_hits(plain_text, rule.patterns): how many patterns of the
\* rule match; none in the empty text.
CountRegexHits(text, rule) ==
    IF text.kind = "empty" THEN 0 ELSE text.hits[rule.event_type]

\* The cap is not applied.
ConfidenceUncapped(rule, hits) == rule.base + rule.per_hit * Max(0, hits - 1)

\* conf = min(rule.cap, rule.base + rule.per_hit * max(0, hits - 1))
Confidence(rule, hits) ==
    Min(rule.cap, rule.base + rule.per_hit * Max(0, hits - 1))

\* A rule that scores as much as the best one so far replaces it.
BetterOnEqual(conf, pri, best) == conf >= best.conf

\* (conf > best_conf) or (conf == best_conf and rule.priority > best_pri)
Better(conf, pri, best) ==
    \/ conf > best.conf
    \/ conf = best.conf /\ pri > best.pri

\* The loop starts from confidence zero.
InitialBestZero == [type |-> GENERIC_NEWS, conf |-> 0, pri |-> -1]

\* best_type, best_conf, best_pri before the loop (lines 237-239).
InitialBest == [type |-> GENERIC_NEWS, conf |-> FallbackConf, pri |-> -1]

\* The loop over the rules rs from its k-th rule on (lines 241-251).
RECURSIVE ScanRules(_, _, _, _)
ScanRules(text, rs, k, best) ==
    IF k > Len(rs) THEN best
    ELSE LET hits == CountRegexHits(text, rs[k])
             conf == Confidence(rs[k], hits)
         IN  IF hits <= 0 THEN ScanRules(text, rs, k + 1, best)
             ELSE IF Better(conf, rs[k].priority, best)
             THEN ScanRules(text, rs, k + 1,
                            [type |-> rs[k].event_type, conf |-> conf,
                             pri |-> rs[k].priority])
             ELSE ScanRules(text, rs, k + 1, best)

\* classify_event with the rule table rs.
ClassifyEvent(text, rs) ==
    IF text.kind \in {"empty", "blank"}
    THEN <<GENERIC_NEWS, FallbackConf>>
    ELSE LET best == ScanRules(text, rs, 1, InitialBest)
         IN  <<best.type, best.conf>>

\* How many rules a text matches at most.
MaxMatching == 2

NoHits == [t \in RuleTypes |-> 0]

\* The hit counts of the first i rules of the table when at most n of them
\* match; a rule has at most as many hits as it has patterns.
RECURSIVE HitCounts(_, _)
HitCounts(i, n) ==
    IF i = 0 THEN {<<>>}
    ELSE {Append(h, 0) : h \in HitCounts(i - 1, n)}
            \cup (IF n = 0 THEN {}
                  ELSE {Append(h, k) : h \in HitCounts(i - 1, n - 1),
                                       k \in 1..RULES[i].patterns})

\* Where the rule of type t stands in the table.
RuleIndex(t) == CHOOSE i \in 1..Len(RULES) : RULES[i].event_type = t

\* The texts with words in which the patterns of at most n rules match.
Words(n) ==
    {[kind |-> "words", hits |-> [t \in RuleTypes |-> h[RuleIndex(t)]]] :
        h \in HitCounts(Len(RULES), n)}

\* The empty text (or None), a text of white space only, and texts with words.
Texts == {[kind |-> k, hits |-> NoHits] : k \in {"empty", "blank"}}
            \cup Words(MaxMatching)

\* The rule table scanned from its i-th rule on and around, and backwards:
\* among these orders every three rules appear in each of their six orders.
Rotation(i) == SubSeq(RULES, i, Len(RULES)) \o SubSeq(RULES, 1, i - 1)
Reverse(s) == [k \in 1..Len(s) |-> s[Len(s) + 1 - k]]
Orders == UNION {{Rotation(i), Reverse(Rotation(i))} : i \in 1..Len(RULES)}

\* No text is being classified.
NoClassifying ==
    /\ plain_text = [kind |-> "empty", hits |-> NoHits]
    /\ result = <<>>

\* ------------------------------------------ the alert pipeline, not running

\* No snippets are being extracted.
NoExtracting ==
    /\ snippet_text = <<>>
    /\ phrases = <<>>
    /\ window_chars = 0
    /\ max_snippets = 0
    /\ max_snippet_len = 0
    /\ snippets = <<>>
    /\ found_at = <<>>
    /\ epc = "idle"

\* The polling loop has not started.
NoAlerting ==
    /\ seen_accessions = {}
    /\ digest_mode = TRUE
    /\ todo = <<>>
    /\ alerted = <<>>
    /\ rpc = "off"

\* No message is being sent.
NoSending ==
    /\ configured = FALSE
    /\ attempt = 0
    /\ errors = <<>>
    /\ slept = <<>>
    /\ send_result = <<>>

\* No document is being fetched.
NoFetching ==
    /\ http_attempt = 0
    /\ responses = <<>>
    /\ delays = <<>>
    /\ get_result = <<>>

\* Nothing of the alert pipeline runs.
NoPipeline == NoExtracting /\ NoAlerting /\ NoSending /\ NoFetching

\* ------------------------------------------------ the keyboard, not running

\* No keyboard is being built.
NoBuilding ==
    /\ accession = ""
    /\ suggested = ""
    /\ ev = 0
    /\ row = <<>>
    /\ keyboard = <<>>
    /\ kpc = "idle"

\* Nothing has run yet, both files are missing; the users produce a stream
\* with contents of C.
InitWith(C) ==
    /\ stream \in Streams(C, MaxStream)
    /\ log = <<>>
    /\ offsetFile = <<>>
    /\ pc = [p \in Procs |-> "idle"]
    /\ seen = [p \in Procs |-> {}]
    /\ last_offset = [p \in Procs |-> 0]
    /\ updates = [p \in Procs |-> <<>>]
    /\ idx = [p \in Procs |-> 0]
    /\ max_update_id = [p \in Procs |-> 0]
    /\ new_rows = [p \in Procs |-> <<>>]
    /\ sent = [p \in Procs |-> <<>>]
    /\ rejected = [p \in Procs |-> {}]
    /\ appended = [p \in Procs |-> 0]
    /\ outcome = [p \in Procs |-> "none"]
    /\ fault = [p \in Procs |-> "none"]
    /\ got = [p \in Procs |-> {}]
    /\ start = [p \in Procs |-> <<>>]
    /\ recovering = [p \in Procs |-> "no"]
    /\ overlap = FALSE

Init == InitWith(Contents) /\ NoBuilding /\ NoClassifying /\ NoPipeline

\* The same job on streams of button presses with tokens of every shape.
InitShapes == InitWith(ShapeContents) /\ NoBuilding /\ NoClassifying /\ NoPipeline

\* The run of p returns or raises: its locals are gone.
Finish(p, how) ==
    /\ pc' = [pc EXCEPT ![p] = "idle"]
    /\ outcome' = [outcome EXCEPT ![p] = how]
    /\ seen' = [seen EXCEPT ![p] = {}]
    /\ last_offset' = [last_offset EXCEPT ![p] = 0]
    /\ updates' = [updates EXCEPT ![p] = <<>>]
    /\ idx' = [idx EXCEPT ![p] = 0]
    /\ max_update_id' = [max_update_id EXCEPT ![p] = 0]
    /\ new_rows' = [new_rows EXCEPT ![p] = <<>>]
    /\ sent' = [sent EXCEPT ![p] = <<>>]
    /\ rejected' = [rejected EXCEPT ![p] = {}]

\* The exception is caught and the run returns as if nothing had happened.
RaiseSwallowed(p, call) ==
    /\ fault' = [fault EXCEPT ![p] = call]
    /\ Finish(p, "noop")

\* A call of p fails with an exception.  process_updates has no handler, so
\* the exception ends the run.
Raise(p, call) ==
    /\ fault' = [fault EXCEPT ![p] = call]
    /\ Finish(p, "raised")

\* A new run of p starts; the record of the run before it is replaced.
Begin(p, batch) ==
    /\ pc[p] = "idle"
    /\ recovering' = [recovering EXCEPT ![p] =
                         IF /\ appended[p] > 0
                            /\ outcome[p] \in {"raised", "crashed"}
                            /\ batch # <<>>
                            /\ Ids(batch) = got[p]
                         THEN outcome[p]
                         ELSE IF /\ outcome[p] = "completed"
                                 /\ batch # <<>>
                                 /\ Ids(batch) \subseteq
                                       {log[k].update_id : k \in 1..Len(log)}
                         THEN "replay"
                         ELSE IF /\ outcome[p] = "raised"
                                 /\ fault[p] = "sendMessage"
                                 /\ batch # <<>>
                                 /\ Ids(batch) = got[p]
                         THEN "prompt" ELSE "no"]
    /\ overlap' = (overlap \/ \E q \in Procs \ {p} : pc[q] # "idle")
    /\ start' = [start EXCEPT ![p] = offsetFile]
    /\ got' = [got EXCEPT ![p] = Ids(batch)]
    /\ appended' = [appended EXCEPT ![p] = 0]

\* getUpdates fails (requests raises, or raise_for_status does).
FetchFails(p) ==
    /\ Begin(p, <<>>)
    /\ Raise(p, "getUpdates")
    /\ UNCHANGED <<others, stream, log, offsetFile>>

\* The early return is missing: the run falls through to _save_offset.
FetchEmptyFallsThrough(p) ==
    /\ Begin(p, <<>>)
    /\ Finish(p, "noop")
    /\ fault' = [fault EXCEPT ![p] = "none"]
    /\ offsetFile' = <<InitialMax(LoadOffset(offsetFile)) + 1>>
    /\ UNCHANGED <<others, stream, log>>

\* getUpdates answers with no update: "if not updates: return".
FetchEmpty(p) ==
    /\ Begin(p, <<>>)
    /\ Finish(p, "noop")
    /\ fault' = [fault EXCEPT ![p] = "none"]
    /\ UNCHANGED <<others, stream, log, offsetFile>>

\* getUpdates answers with a batch: lines 122-128.
FetchBatch(p) ==
    \E batch \in Batches(LoadOffset(offsetFile)) :
        /\ Begin(p, batch)
        /\ pc' = [pc EXCEPT ![p] = "loop"]
        /\ seen' = [seen EXCEPT ![p] = SeenUpdateIds(log)]
        /\ last_offset' = [last_offset EXCEPT ![p] = LoadOffset(offsetFile)]
        /\ updates' = [updates EXCEPT ![p] = batch]
        /\ idx' = [idx EXCEPT ![p] = 1]
        /\ max_update_id' = [max_update_id EXCEPT ![p] =
                                InitialMax(LoadOffset(offsetFile))]
        /\ new_rows' = [new_rows EXCEPT ![p] = <<>>]
        /\ sent' = [sent EXCEPT ![p] = <<>>]
        /\ rejected' = [rejected EXCEPT ![p] = {}]
        /\ outcome' = [outcome EXCEPT ![p] = "none"]
        /\ fault' = [fault EXCEPT ![p] = "none"]
        /\ UNCHANGED <<others, stream, log, offsetFile>>

\* One iteration of the for-loop (lines 129-197) in which every call to the
\* Bot API succeeds.
ProcessUpdate(p) ==
    /\ pc[p] = "loop"
    /\ LET upd == updates[p][idx[p]]
           rows == RowsAfter(upd, seen[p], new_rows[p])
       IN  /\ max_update_id' =
                 [max_update_id EXCEPT ![p] = MaxAfter(upd, @)]
           /\ sent' = [sent EXCEPT ![p] = @ \o Calls(upd, seen[p])]
           /\ seen' = [seen EXCEPT ![p] = SeenAfter(upd, @)]
           /\ new_rows' = [new_rows EXCEPT ![p] = rows]
           /\ idx' = [idx EXCEPT ![p] = @ + 1]
           /\ pc' = [pc EXCEPT ![p] =
                       IF idx[p] < Len(updates[p]) THEN "loop"
                       ELSE IF rows # <<>> THEN "append"
                       ELSE "save"]
    /\ UNCHANGED <<others, stream, log, offsetFile, last_offset, updates,
                   rejected, appended, outcome, fault, got, start, recovering, overlap>>

\* answerCallbackQuery raises in this iteration.
AckFails(p) ==
    /\ pc[p] = "loop"
    /\ Actionable(updates[p][idx[p]])
    /\ Raise(p, "answerCallbackQuery")
    /\ UNCHANGED <<others, stream, log, offsetFile, appended, got, start,
                   recovering, overlap>>

\* sendMessage raises in the wrong branch, after the acknowledgement went out.
PromptFails(p) ==
    /\ pc[p] = "loop"
    /\ Prompts(updates[p][idx[p]], seen[p])
    /\ Raise(p, "sendMessage")
    /\ UNCHANGED <<others, stream, log, offsetFile, appended, got, start,
                   recovering, overlap>>

\* One iteration of "for row in new_rows: _append_feedback" (lines 198-199).
AppendRow(p) ==
    /\ pc[p] = "append"
    /\ log' = Append(log, new_rows[p][appended[p] + 1])
    /\ appended' = [appended EXCEPT ![p] = @ + 1]
    /\ pc' = [pc EXCEPT ![p] = AfterAppend(appended[p] + 1, Len(new_rows[p]))]
    /\ UNCHANGED <<others, stream, offsetFile, seen, last_offset, updates, idx,
                   max_update_id, new_rows, sent, rejected, outcome, fault,
                   got, start, recovering, overlap>>

\* The failure of the write is caught and the loop goes on with the next row.
AppendFailsSkipsRow(p) ==
    /\ pc[p] = "append"
    /\ fault' = [fault EXCEPT ![p] = "append"]
    /\ appended' = [appended EXCEPT ![p] = @ + 1]
    /\ pc' = [pc EXCEPT ![p] = AfterAppend(appended[p] + 1, Len(new_rows[p]))]
    /\ UNCHANGED <<others, stream, log, offsetFile, seen, last_offset, updates,
                   idx, max_update_id, new_rows, sent, rejected, outcome, got,
                   start, recovering, overlap>>

\* _append_feedback raises (the open or the write fails): nothing is written
\* for this row.
AppendFails(p) ==
    /\ pc[p] = "append"
    /\ Raise(p, "append")
    /\ UNCHANGED <<others, stream, log, offsetFile, appended, got, start,
                   recovering, overlap>>

\* _save_offset(offset_path, max_update_id + 1) and the return (lines 200-202).
SaveOffset(p) ==
    /\ pc[p] = "save"
    /\ offsetFile' = <<max_update_id[p] + 1>>
    /\ Finish(p, "completed")
    /\ UNCHANGED <<others, stream, log, appended, fault, got, start, recovering, overlap>>

\* The run is interrupted (the job is killed) between two steps.
Crash(p) ==
    /\ pc[p] # "idle"
    /\ Finish(p, "crashed")
    /\ UNCHANGED <<others, stream, log, offsetFile, appended, fault, got, start,
                   recovering, overlap>>

\* Serialized runs of the job.
Next ==
    \/ FetchFails(Job)
    \/ FetchEmpty(Job)
    \/ FetchBatch(Job)
    \/ ProcessUpdate(Job)
    \/ AckFails(Job)
    \/ PromptFails(Job)
    \/ AppendRow(Job)
    \/ AppendFails(Job)
    \/ SaveOffset(Job)
    \/ Crash(Job)

Spec == Init /\ [][Next]_vars

SpecShapes == InitShapes /\ [][Next]_vars

\* One iteration of the wrong branch in which sendMessage returns with an
\* error status: _send_message does not look at the answer (lines 90-95), so
\* the iteration goes on as if the prompt had been delivered.
PromptRejected(p) ==
    /\ pc[p] = "loop"
    /\ Prompts(updates[p][idx[p]], seen[p])
    /\ LET upd == updates[p][idx[p]]
           calls == Calls(upd, seen[p])
           rows == RowsAfter(upd, seen[p], new_rows[p])
       IN  /\ max_update_id' =
                 [max_update_id EXCEPT ![p] = MaxAfter(upd, @)]
           /\ sent' = [sent EXCEPT ![p] = @ \o calls]
           /\ rejected' = [rejected EXCEPT ![p] =
                             @ \cup {Len(sent[p]) + Len(calls)}]
           /\ seen' = [seen EXCEPT ![p] = SeenAfter(upd, @)]
           /\ new_rows' = [new_rows EXCEPT ![p] = rows]
           /\ idx' = [idx EXCEPT ![p] = @ + 1]
           /\ pc' = [pc EXCEPT ![p] =
                       IF idx[p] < Len(updates[p]) THEN "loop"
                       ELSE IF rows # <<>> THEN "append"
                       ELSE "save"]
    /\ UNCHANGED <<others, stream, log, offsetFile, last_offset, updates,
                   appended, outcome, fault, got, start, recovering, overlap>>

\* The job when the Bot API may also answer sendMessage with an error.
NextPrompt ==
    \/ Next
    \/ PromptRejected(Job)

SpecPrompt == Init /\ [][NextPrompt]_vars

\* Presses of the configured chat that two invocations may both be delivered.
ConcContents ==
    {[cq |-> TRUE, chat |-> ChatId, data |-> t] : t \in {TokOk, TokWrong}}

InitConc == InitWith(ConcContents) /\ NoBuilding /\ NoClassifying /\ NoPipeline

\* Two invocations of the job on the same log and offset files, their steps
\* interleaved: nothing in the code keeps a second one from starting.  A run
\* that raises leaves the files as a run that is killed at that point does.
NextConc ==
    \E p \in Procs :
        \/ FetchEmpty(p)
        \/ FetchBatch(p)
        \/ ProcessUpdate(p)
        \/ AppendRow(p)
        \/ SaveOffset(p)
        \/ Crash(p)

SpecConc == InitConc /\ [][NextConc]_vars

\* ------------------------------------------------ _build_event_type_keyboard

\* The longest callback_data the Bot API takes, and the width of a row.
MaxCallbackData == 64
RowWidth == 3

\* Accession numbers as tokens carry them: the EDGAR form (20 characters), a
\* shorter and a longer one.
Accessions == {Accession, "24-000123", "0001193125-24-000123/primary-doc.htm"}

\* event_type_display_name
EventTypeDisplayName(e) ==
    CASE e = PREF_CALL -> "Redemption / Call"
      [] e = PREF_PARTIAL_CALL -> "Partial call / Redemption"
      [] e = PREF_NEW_ISSUE -> "New preferred issue / terms"
      [] e = DIV_SUSPENSION -> "Dividend suspension / omission"
      [] e = OFFERING -> "Offering / ATM"
      [] e = RIGHTS_OFFERING -> "Rights offering"
      [] e = TENDER_OFFER -> "Tender offer / repurchase"
      [] e = EXCHANGE_OFFER -> "Exchange offer / consent"
      [] e = CEF_DISTRIBUTION_CHANGE -> "CEF distribution change"
      [] e = LIQUIDATION_TERMINATION -> "Liquidation / Termination"
      [] e = EARNINGS -> "Earnings / earnings call"
      [] e = GENERIC_NEWS -> "Filing"
      [] OTHER -> IF e = "" THEN "Filing" ELSE e

\* cb = f"set:{accession}:{suggested}:{ev}"
CallbackData(acc, sug, e) == "set:" \o acc \o ":" \o sug \o ":" \o e

\* Every token is taken, whatever its length.
FitsAlways(cb) == TRUE

\* The test the loop makes before it takes a token ("if len(cb) > 64: continue").
Fits(cb) == Len(cb) <= MaxCallbackData

\* A row is only closed by the end of the loop.
RowFullNever(r) == FALSE

\* "if len(row) >= 3"
RowFull(r) == Len(r) >= RowWidth

\* A call of _build_event_type_keyboard with some accession and some suggested
\* type of the enumeration, at the head of its loop.
InitKeyboard ==
    /\ InitWith({})
    /\ NoClassifying
    /\ NoPipeline
    /\ accession \in Accessions
    /\ suggested \in Elems(ALL_EVENT_TYPES)
    /\ ev = 1
    /\ row = <<>>
    /\ keyboard = <<>>
    /\ kpc = "loop"

\* One iteration whose token fits: the control joins the row, and a full row
\* joins the keyboard.
KeepCandidate ==
    /\ kpc = "loop"
    /\ ev <= Len(ALL_EVENT_TYPES)
    /\ LET cb == CallbackData(accession, suggested, ALL_EVENT_TYPES[ev])
           r == Append(row, [text |-> EventTypeDisplayName(ALL_EVENT_TYPES[ev]),
                             callback_data |-> cb])
       IN  /\ Fits(cb)
           /\ row' = IF RowFull(r) THEN <<>> ELSE r
           /\ keyboard' = IF RowFull(r) THEN Append(keyboard, r) ELSE keyboard
    /\ ev' = ev + 1
    /\ UNCHANGED <<feedback, classifying, pipeline, accession, suggested, kpc>>

\* One iteration whose token is too long: "continue".
SkipCandidate ==
    /\ kpc = "loop"
    /\ ev <= Len(ALL_EVENT_TYPES)
    /\ ~Fits(CallbackData(accession, suggested, ALL_EVENT_TYPES[ev]))
    /\ ev' = ev + 1
    /\ UNCHANGED <<feedback, classifying, pipeline, accession, suggested, row, keyboard,
                   kpc>>

\* The loop is over: a row that is not empty joins the keyboard, and the
\* keyboard is returned.
ReturnKeyboard ==
    /\ kpc = "loop"
    /\ ev > Len(ALL_EVENT_TYPES)
    /\ keyboard' = IF row # <<>> THEN Append(keyboard, row) ELSE keyboard
    /\ kpc' = "done"
    /\ UNCHANGED <<feedback, classifying, pipeline, accession, suggested, ev, row>>

NextKeyboard ==
    \/ KeepCandidate
    \/ SkipCandidate
    \/ ReturnKeyboard

SpecKeyboard == InitKeyboard /\ [][NextKeyboard]_vars

\* ------------------------------------------------- classify_event, called

\* A call of classify_event on some text.
InitClassify ==
    /\ InitWith({})
    /\ NoBuilding
    /\ NoPipeline
    /\ plain_text \in Texts
    /\ result = <<>>

\* classify_event scans the rules in the order rs and returns.
Classify(rs) ==
    /\ result = <<>>
    /\ result' = <<ClassifyEvent(plain_text, rs)>>
    /\ UNCHANGED <<feedback, building, pipeline, plain_text>>

\* The call with the table as it is written.
ClassifyAsWritten == Classify(RULES)

SpecClassify == InitClassify /\ [][ClassifyAsWritten]_vars

\* The call with the rules of the table in another order.
ClassifyInOrder == \E rs \in Orders : Classify(rs)

SpecOrder == InitClassify /\ [][ClassifyInOrder]_vars

\* ------------------------------------------------------- extract_snippets

\* How long the text is at most, and how many phrases the list holds at most.
MaxTextLen == 4
MaxPhrases == 2

\* The characters of the texts: a lower-case letter, an upper-case letter and
\* white space.
Alphabet == {"a", "B", " "}

\* "..."
Ellipsis == <<".", ".", ".">>

\* The sequences over S of length at most n.
SeqsUpTo(S, n) == UNION {[1..k -> S] : k \in 0..n}

\* str.lower()
LowerChar(c) == IF c = "A" THEN "a" ELSE IF c = "B" THEN "b" ELSE c
Lower(s) == [i \in 1..Len(s) |-> LowerChar(s[i])]

\* Runs of white space inside s become one space.
RECURSIVE Collapse(_)
Collapse(s) ==
    IF Len(s) < 2 THEN s
    ELSE IF s[1] = " " /\ s[2] = " " THEN Collapse(Tail(s))
    ELSE <<s[1]>> \o Collapse(Tail(s))

\* " ".join(s.split())
JoinSplit(s) == Collapse(Strip(s))

\* str.find: the lowest index (from 0) at which sub occurs in s, or -1.
Find(s, sub) ==
    LET I == {i \in 0..(Len(s) - Len(sub)) :
                 SubSeq(s, i + 1, i + Len(sub)) = sub}
    IN  IF I = {} THEN -1 ELSE MinOf(I)

\* A slice bound of Python: a negative one counts from the end.
Clip(i, n) == IF i < 0 THEN Max(0, n + i) ELSE Min(i, n)

\* s[a:b]
Slice(s, a, b) == SubSeq(s, Clip(a, Len(s)) + 1, Clip(b, Len(s)))

\* "snip in snippets"
Contains(seq, x) == \E i \in 1..Len(seq) : seq[i] = x

\* Lines 43-44: a snippet longer than max_len is cut and gets the ellipsis.
Truncate(snip, max_len) ==
    IF Len(snip) > max_len
    THEN Slice(snip, 0, max_len - 3) \o Ellipsis
    ELSE snip

\* No offset counts as used.
AlreadyUsedNever(at, seen_starts) == FALSE

\* "if idx in seen_starts"
AlreadyUsed(at, seen_starts) == at \in seen_starts

\* Lines 27-48, from the i-th phrase on; st holds snippets, seen_starts and,
\* beside them, the idx of every snippet that was appended.
RECURSIVE SnippetLoop(_, _, _)
SnippetLoop(a, i, st) ==
    IF i > Len(a.phrases) \/ Len(st.snippets) >= a.max_snippets THEN st
    ELSE
    LET phrase == a.phrases[i]
        at == Find(a.lower_norm, Lower(phrase))
        from == Max(0, at - a.window_chars)
        upto == Min(Len(a.normalized), at + Len(phrase) + a.window_chars)
        snip == Truncate(JoinSplit(Strip(Slice(a.normalized, from, upto))),
                         a.max_snippet_len)
        used == [st EXCEPT !.seen_starts = @ \cup {at}]
    IN  IF at < 0 THEN SnippetLoop(a, i + 1, st)
        ELSE IF AlreadyUsed(at, st.seen_starts) THEN SnippetLoop(a, i + 1, st)
        ELSE IF snip = <<>> THEN SnippetLoop(a, i + 1, used)
        ELSE IF Contains(st.snippets, snip) THEN SnippetLoop(a, i + 1, used)
        ELSE SnippetLoop(a, i + 1,
                         [used EXCEPT !.snippets = Append(@, snip),
                                      !.found_at = Append(@, at)])

\* extract_snippets
ExtractSnippets(text, phr, window, most, max_len) ==
    IF text = <<>> \/ phr = <<>>
    THEN [snippets |-> <<>>, found_at |-> <<>>]
    ELSE LET st == SnippetLoop(
                     [phrases |-> phr, window_chars |-> window,
                      max_snippets |-> most, max_snippet_len |-> max_len,
                      normalized |-> JoinSplit(text),
                      lower_norm |-> JoinSplit(Lower(text))],
                     1, [snippets |-> <<>>, found_at |-> <<>>,
                         seen_starts |-> {}])
         IN  [snippets |-> Slice(st.snippets, 0, most),
              found_at |-> Slice(st.found_at, 0, most)]

\* The texts, the phrases (one of them in upper case, one that begins where
\* another one does) and the phrase lists.
SnippetTexts == SeqsUpTo(Alphabet, MaxTextLen)
Phrases == {<<"a">>, <<"B">>, <<"a", "B">>}
PhraseLists == SeqsUpTo(Phrases, MaxPhrases)

\* The windows: none, one character, and the whole text as with 250.
Windows == {0, 1, MaxTextLen}
\* max_snippets, up to the length of the phrase list.
SnippetLimits == 0..MaxPhrases
\* max_snippet_len: too short for the ellipsis, just long enough for it, and
\* the length of the longest text.
Lengths == {0, 1, 2, 3, MaxTextLen}

\* A call of extract_snippets on some text with some phrases is about to
\* happen.
InitSnippets ==
    /\ InitWith({})
    /\ NoBuilding
    /\ NoClassifying
    /\ NoAlerting /\ NoSending /\ NoFetching
    /\ snippet_text \in SnippetTexts
    /\ phrases \in PhraseLists
    /\ window_chars = 0
    /\ max_snippets = 0
    /\ max_snippet_len = 0
    /\ snippets = <<>>
    /\ found_at = <<>>
    /\ epc = "called"

\* The call, with some window and limits, returns.
Extract ==
    /\ epc = "called"
    /\ \E w \in Windows, most \in SnippetLimits, max_len \in Lengths :
        LET r == ExtractSnippets(snippet_text, phrases, w, most, max_len)
        IN  /\ window_chars' = w
            /\ max_snippets' = most
            /\ max_snippet_len' = max_len
            /\ snippets' = r.snippets
            /\ found_at' = r.found_at
    /\ epc' = "done"
    /\ UNCHANGED <<feedback, building, classifying, alerting, sending,
                   fetching, snippet_text, phrases>>

SpecSnippets == InitSnippets /\ [][Extract]_vars

\* --------------------------------------------------------------- run_once

\* How many filings one fetch returns at most.
MaxFilings == 2

\* The accession numbers that EDGAR has assigned.
FiledAccessions == {"0001-26-000001", "0001-26-000002"}

\* The issuers of the watch list, by the number their zero-padded CIK stands
\* for.
WatchlistCiks == {1, 2}

\* A filing as fetch_filings_for_cik builds it, with the fields run_once
\* reads; form type and filing date are the same for all.  The accession
\* number is "" where the feed has none.
Filings == [accession_number : FiledAccessions \cup {""}, cik : WatchlistCiks]

\* fetch_all_watchlist_filings: the filings of one issuer after those of
\* another.  An issuer's feed lists a filing once; a filing with several
\* filers is in the feed of each of them, under one accession number.
Fetches ==
    {f \in SeqsUpTo(Filings, MaxFilings) :
        /\ \A i, j \in 1..Len(f) : i # j => f[i] # f[j]
        /\ \A i, j, k \in 1..Len(f) :
              i < j /\ j < k /\ f[i].cik = f[k].cik => f[j].cik = f[i].cik}

\* Line 75: the filings with an accession number that is not in seen.
NewFilings(filings, seen_before) ==
    LET Keep(f) == f.accession_number # ""
                      /\ f.accession_number \notin seen_before
    IN  SelectSeq(filings, Keep)

\* _group_by_cik_form_date: one group per issuer, the highest CIK first.
RECURSIVE GroupsFrom(_, _)
GroupsFrom(filings, cik) ==
    IF cik = 0 THEN <<>>
    ELSE LET Keep(f) == f.cik = cik
             group == SelectSeq(filings, Keep)
         IN  (IF group = <<>> THEN <<>> ELSE <<group>>)
                \o GroupsFrom(filings, cik - 1)

GroupByCikFormDate(filings) == GroupsFrom(filings, MaxOf(WatchlistCiks))

\* The accession numbers of a group.
AccessionsOf(group) == {group[i].accession_number : i \in 1..Len(group)}

\* How a send ends: the message was delivered (True), nothing was sent
\* because the bot is not configured (False), or the send raised.
SendOutcomes == {"sent", "not sent", "raised"}

\* The polling loop starts: the state file gave some set of accession
\* numbers, and no alert has been sent.
InitRunOnce ==
    /\ InitWith({})
    /\ NoBuilding
    /\ NoClassifying
    /\ NoExtracting /\ NoSending /\ NoFetching
    /\ seen_accessions \in SUBSET FiledAccessions
    /\ digest_mode \in BOOLEAN
    /\ todo = <<>>
    /\ alerted = [a \in FiledAccessions |-> 0]
    /\ rpc = "idle"

\* Lines 68-84, 101-103: run_once is called with the set the call before it
\* left, fetches, and keeps the new filings: as groups in digest mode, one by
\* one else.  (MAX_NEW_ALERTS_PER_RUN is not set in config.py.)
StartRun ==
    /\ rpc = "idle"
    /\ \E filings \in Fetches :
        LET new_filings == NewFilings(filings, seen_accessions)
        IN  todo' = IF digest_mode THEN GroupByCikFormDate(new_filings)
                    ELSE new_filings
    /\ rpc' = "loop"
    /\ UNCHANGED <<feedback, building, classifying, extracting, sending,
                   fetching, seen_accessions, digest_mode, alerted>>

\* Lines 85-98: one iteration of the digest loop.  The accession numbers of
\* the group join seen when send_digest_alert_sync returned True; when it
\* raised, the exception leaves run_once, and the caller keeps the set.
SendDigest ==
    /\ rpc = "loop" /\ digest_mode /\ todo # <<>>
    /\ \E o \in SendOutcomes :
        LET group == Head(todo)
        IN  /\ seen_accessions' = IF o = "sent"
                                  THEN seen_accessions \cup AccessionsOf(group)
                                  ELSE seen_accessions
            /\ alerted' = IF o = "sent"
                          THEN [a \in FiledAccessions |->
                                  IF a \in AccessionsOf(group)
                                  THEN alerted[a] + 1 ELSE alerted[a]]
                          ELSE alerted
            /\ todo' = IF o = "raised" THEN <<>> ELSE Tail(todo)
            /\ rpc' = IF o = "raised" THEN "idle" ELSE "loop"
    /\ UNCHANGED <<feedback, building, classifying, extracting, sending,
                   fetching, digest_mode>>

\* Lines 120-144: an iteration of the per-filing loop up to the send: the
\* accession number joins seen; what fetching and classifying the document
\* raise is caught.
MarkSeen ==
    /\ rpc = "loop" /\ ~digest_mode /\ todo # <<>>
    /\ seen_accessions' = seen_accessions \cup {Head(todo).accession_number}
    /\ rpc' = "send"
    /\ UNCHANGED <<feedback, building, classifying, extracting, sending,
                   fetching, digest_mode, todo, alerted>>

\* Lines 145-148: the send of the iteration.
SendFilingAlert ==
    /\ rpc = "send"
    /\ \E o \in SendOutcomes :
        LET acc == Head(todo).accession_number
        IN  /\ alerted' = IF o = "sent"
                          THEN [alerted EXCEPT ![acc] = @ + 1]
                          ELSE alerted
            /\ todo' = IF o = "raised" THEN <<>> ELSE Tail(todo)
            /\ rpc' = IF o = "raised" THEN "idle" ELSE "loop"
    /\ UNCHANGED <<feedback, building, classifying, extracting, sending,
                   fetching, seen_accessions, digest_mode>>

\* Lines 99, 149: "return seen".
ReturnSeen ==
    /\ rpc = "loop" /\ todo = <<>>
    /\ rpc' = "idle"
    /\ UNCHANGED <<feedback, building, classifying, extracting, sending,
                   fetching, seen_accessions, digest_mode, todo, alerted>>

NextRunOnce ==
    \/ StartRun
    \/ SendDigest
    \/ MarkSeen
    \/ SendFilingAlert
    \/ ReturnSeen

SpecRunOnce == InitRunOnce /\ [][NextRunOnce]_vars

\* ---------------------------------------------------------- _send_message

\* A message of an exception is a sequence of pieces of text, cut so that
\* what _is_429 looks for is a piece or is absent.

\* _TELEGRAM_429_BACKOFF with a fourth wait.
TELEGRAM_429_BACKOFF_Longer == <<30, 60, 90, 120>>

\* _TELEGRAM_429_BACKOFF
TELEGRAM_429_BACKOFF == <<30, 60, 90>>

\* What bot.send_message raises: the answer of the Bot API to a flood, an
\* HTTP error that names the status, a message in capitals, the library's
\* flood-control message, a timeout and a refusal.
SendErrors ==
    {<<"Too Many Requests", ": ", "retry after", " 30">>,
     <<"HTTP error ", "429">>,
     <<"RETRY AFTER", " 30">>,
     <<"Flood control exceeded. ", "Retry in", " 30 seconds">>,
     <<"Timed out">>,
     <<"Forbidden: ", "bot was blocked by the user">>}

\* str.lower() on a piece.
LowerPiece(c) ==
    CASE c = "Too Many Requests" -> "too many requests"
      [] c = "RETRY AFTER" -> "retry after"
      [] c = "HTTP error " -> "http error "
      [] c = "Flood control exceeded. " -> "flood control exceeded. "
      [] c = "Retry in" -> "retry in"
      [] c = "Timed out" -> "timed out"
      [] c = "Forbidden: " -> "forbidden: "
      [] OTHER -> c

\* _is_429; s is str(e).lower()
Is429(e) ==
    LET s == [i \in 1..Len(e) |-> LowerPiece(e[i])]
    IN  \/ Contains(s, "429")
        \/ Contains(s, "too many requests")
        \/ Contains(s, "retry after")

\* A call of _send_message, with the bot configured or not.
InitSend ==
    /\ InitWith({})
    /\ NoBuilding
    /\ NoClassifying
    /\ NoExtracting /\ NoAlerting /\ NoFetching
    /\ configured \in BOOLEAN
    /\ attempt = 0
    /\ errors = <<>>
    /\ slept = <<>>
    /\ send_result = <<>>

\* The for-loop has an iteration to run.
InLoop ==
    /\ configured
    /\ send_result = <<>>
    /\ attempt < 1 + Len(TELEGRAM_429_BACKOFF)

\* Lines 115-116: token or chat id is missing.
ReturnFalse ==
    /\ ~configured
    /\ send_result = <<>>
    /\ send_result' = <<"False">>
    /\ UNCHANGED <<feedback, building, classifying, extracting, alerting,
                   fetching, configured, attempt, errors, slept>>

\* Lines 130-131: bot.send_message returns.
ReturnTrue ==
    /\ InLoop
    /\ send_result' = <<"True">>
    /\ UNCHANGED <<feedback, building, classifying, extracting, alerting,
                   fetching, configured, attempt, errors, slept>>

\* Lines 132-137: bot.send_message raises e, e is taken for a 429 and a wait
\* is left: sleep, next iteration.
RetryAfterWait ==
    /\ InLoop
    /\ \E e \in SendErrors :
        /\ attempt < Len(TELEGRAM_429_BACKOFF) /\ Is429(e)
        /\ errors' = Append(errors, e)
        /\ slept' = Append(slept, TELEGRAM_429_BACKOFF[attempt + 1])
    /\ attempt' = attempt + 1
    /\ UNCHANGED <<feedback, building, classifying, extracting, alerting,
                   fetching, configured, send_result>>

\* Lines 132-134, 138-139: bot.send_message raises e and e is raised on.
RaiseOn ==
    /\ InLoop
    /\ \E e \in SendErrors :
        /\ ~(attempt < Len(TELEGRAM_429_BACKOFF) /\ Is429(e))
        /\ errors' = Append(errors, e)
        /\ send_result' = <<"raise", e>>
    /\ UNCHANGED <<feedback, building, classifying, extracting, alerting,
                   fetching, configured, attempt, slept>>

NextSend ==
    \/ ReturnFalse
    \/ ReturnTrue
    \/ RetryAfterWait
    \/ RaiseOn

\* bot.send_message and asyncio.sleep return or raise: the coroutine, once
\* called, takes its next step.
FairSpecSend == InitSend /\ [][NextSend]_vars /\ WF_vars(NextSend)

\* ------------------------------------------------------ SecHttpClient.get

\* max_retries
MaxRetries == 3

\* What requests.get does: it answers with a status, or it raises a
\* RequestException of its own (no connection, timeout).
StatusCodes == {200, 204, 403, 404, 429, 500, 503}
Answers == [kind : {"response"}, status_code : StatusCodes]
              \cup {[kind |-> "exception", status_code |-> 0]}

\* "r.status_code == 429 or (500 <= r.status_code < 600)"
RetryStatus(r) ==
    r.status_code = 429 \/ (500 <= r.status_code /\ r.status_code < 600)

\* r.raise_for_status() raises an HTTPError, which is a RequestException.
RaisesForStatus(r) == 400 <= r.status_code /\ r.status_code < 600

\* 2 ** n
RECURSIVE Pow2(_)
Pow2(n) == IF n = 0 THEN 1 ELSE 2 * Pow2(n - 1)

\* Lines 60-74, one iteration: what becomes of the answer r in the iteration
\* number k (from 0).  An exception of requests.get and the HTTPError of
\* raise_for_status both end in the except clause.
Handle(r, k) ==
    IF r.kind = "response" /\ RetryStatus(r) /\ k < MaxRetries - 1
    THEN "continue"
    ELSE IF r.kind = "response" /\ ~RaisesForStatus(r)
    THEN "return"
    ELSE IF k < MaxRetries - 1 THEN "continue" ELSE "raise"

\* A call of get.
InitGet ==
    /\ InitWith({})
    /\ NoBuilding
    /\ NoClassifying
    /\ NoExtracting /\ NoAlerting /\ NoSending
    /\ http_attempt = 0
    /\ responses = <<>>
    /\ delays = <<>>
    /\ get_result = <<>>

\* The for-loop has an iteration to run.
Requesting == get_result = <<>> /\ http_attempt < MaxRetries

\* An iteration that ends in "continue", after the backoff.
Backoff ==
    /\ Requesting
    /\ \E r \in Answers :
        /\ Handle(r, http_attempt) = "continue"
        /\ responses' = Append(responses, r)
    /\ delays' = Append(delays, Pow2(http_attempt))
    /\ http_attempt' = http_attempt + 1
    /\ UNCHANGED <<feedback, building, classifying, extracting, alerting,
                   sending, get_result>>

\* An iteration that ends in "return r.content".
ReturnContent ==
    /\ Requesting
    /\ \E r \in Answers :
        /\ Handle(r, http_attempt) = "return"
        /\ responses' = Append(responses, r)
        /\ get_result' = <<"content", r>>
    /\ UNCHANGED <<feedback, building, classifying, extracting, alerting,
                   sending, http_attempt, delays>>

\* An iteration that ends in "raise".
RaiseLast ==
    /\ Requesting
    /\ \E r \in Answers :
        /\ Handle(r, http_attempt) = "raise"
        /\ responses' = Append(responses, r)
        /\ get_result' = <<"raise", r>>
    /\ UNCHANGED <<feedback, building, classifying, extracting, alerting,
                   sending, http_attempt, delays>>

NextGet ==
    \/ Backoff
    \/ ReturnContent
    \/ RaiseLast

SpecGet == InitGet /\ [][NextGet]_vars

\* ------------------------------------------------------------------ claims

\* The updates that, per the token grammar, produce a row: a button press of
\* the configured chat whose token is ok:.., set:.. or irrelevant:...
RowProducing(u) ==
    u.cq /\ u.chat = ChatId /\ u.data \in {TokOk, TokSet, TokIrrelevant}

\* A button press of the configured chat with token tok.
Pressed(u, tok) == u.cq /\ u.chat = ChatId /\ u.data = tok

\* How many rows of l carry update id i.
Count(l, i) == Cardinality({k \in 1..Len(l) : l[k].update_id = i})

\* The updates the loop of the running job has gone through.
Processed == SubSeq(updates[Job], 1, idx[Job] - 1)

Running == pc[Job] \in {"loop", "append", "save"}

Completed == pc[Job] = "idle" /\ outcome[Job] = "completed"

\* The rows of the running job that are not in the log yet.
Queued == SubSeq(new_rows[Job], appended[Job] + 1, Len(new_rows[Job]))

\* C1 (feedback idempotence).  However often the stream delivers an update,
\* in one batch or in several, the log never holds two rows with the same
\* update id; and the rows a run has queued have ids that are pairwise
\* different and not in the log, so a delivery whose id is already in the
\* de-duplication set queues nothing (and no second prompt is sent for it).
C1_FeedbackIdempotence ==
    /\ \A i \in 1..MaxStream : Count(log, i) <= 1
    /\ Running =>
          /\ \A i \in 1..MaxStream :
                Count(Queued, i) + Count(log, i) <= 1
          /\ Cardinality({k \in 1..Len(sent[Job]) :
                              sent[Job][k].method = "sendMessage"})
                <= Cardinality({u.update_id : u \in Elems(Processed)})

\* An update that has its row in the log from an earlier run is delivered
\* twice in one batch: both deliveries are acknowledged, nothing is queued.
C1_Witness ==
    /\ pc[Job] = "save"
    /\ Len(updates[Job]) = 2
    /\ updates[Job][1] = updates[Job][2]
    /\ RowProducing(updates[Job][1])
    /\ Count(log, updates[Job][1].update_id) = 1
    /\ new_rows[Job] = <<>>
    /\ Len(sent[Job]) = 2

\* C2 (offset past the batch).  After a run that fetched a non-empty batch
\* and completed, the persisted offset is greater than every update id of
\* the batch, actionable or not.
C2_OffsetPastBatch ==
    Completed =>
        /\ offsetFile # <<>>
        /\ \A i \in got[Job] : offsetFile[1] > i

\* A completed run whose batch ended with an update the loop does not act on.
C2_Witness ==
    /\ Completed
    /\ got[Job] # {}
    /\ ~Actionable(stream[MaxOf(got[Job])])
    /\ offsetFile = <<MaxOf(got[Job]) + 1>>

\* C3 (offset never decreases).  The persisted offset is never smaller than
\* the value the current (or last) run loaded, whatever ids the batch holds
\* and however the run ends.
C3_OffsetNeverDecreases ==
    LoadOffset(offsetFile) >= LoadOffset(start[Job])

\* A completed run whose batch held only ids below the offset it loaded: the
\* offset is written again with the same value.
C3_Witness ==
    /\ Completed
    /\ got[Job] # {}
    /\ \A i \in got[Job] : i < LoadOffset(start[Job])
    /\ offsetFile = start[Job]

\* C4 (rows before offset).  In every state, also one left by an interrupted
\* run, every row-producing update whose id is below the persisted offset has
\* a row in the log.
C4_RowsBeforeOffset ==
    \A i \in 1..Len(stream) :
        (RowProducing(stream[i]) /\ i < LoadOffset(offsetFile))
            => Count(log, i) >= 1

\* A run is interrupted after appending a row, after an earlier run has
\* moved the offset past a row-producing update.
C4_Witness ==
    /\ pc[Job] = "idle"
    /\ outcome[Job] = "crashed"
    /\ appended[Job] > 0
    /\ LoadOffset(offsetFile) = 2
    /\ RowProducing(stream[1])
    /\ Count(log, 1) = 1

\* Exactly one row for every row-producing update of the last batch, none
\* for the others, and the offset is past the batch.
BatchSettled ==
    /\ offsetFile # <<>>
    /\ \A i \in got[Job] :
          /\ Count(log, i) = (IF RowProducing(stream[i]) THEN 1 ELSE 0)
          /\ offsetFile[1] > i

\* C5 (crash recovery).  When a run is interrupted after appending rows and
\* before saving the offset, and the next run is delivered the same updates
\* and completes, the log has exactly one row for each row-producing update
\* of the batch and the offset is past the batch.
C5_CrashRecovery ==
    (Completed /\ recovering[Job] = "crashed") => BatchSettled

\* Such a recovery, of a batch with two row-producing updates.
C5_Witness ==
    /\ Completed
    /\ recovering[Job] = "crashed"
    /\ Cardinality({i \in got[Job] : RowProducing(stream[i])}) = 2

\* C6 (no-op path).  A run whose fetch returns no update ends without writing
\* the offset file, without appending to the log and without any call to the
\* Bot API.
C6_NoOpPath ==
    [][(pc[Job] = "idle" /\ pc'[Job] = "idle" /\ outcome'[Job] = "noop")
          => (log' = log /\ offsetFile' = offsetFile /\ sent' = sent)]_vars

\* A run that found nothing to fetch, with a log and an offset file in place.
C6_Witness ==
    /\ pc[Job] = "idle"
    /\ outcome[Job] = "noop"
    /\ log # <<>>
    /\ offsetFile # <<>>

\* C7 (network failure aborts the batch).  When getUpdates,
\* answerCallbackQuery or sendMessage fails, the run ends by raising and the
\* offset file is what it was when the run started.
C7_NetworkFailureAborts ==
    fault[Job] \in {"getUpdates", "answerCallbackQuery", "sendMessage"} =>
        /\ pc[Job] = "idle"
        /\ outcome[Job] = "raised"
        /\ offsetFile = start[Job]

\* The prompt of a wrong update could not be sent, in a run that started
\* from a saved offset.
C7_Witness ==
    /\ fault[Job] = "sendMessage"
    /\ outcome[Job] = "raised"
    /\ offsetFile # <<>>

\* C8 (append failure is fatal).  When appending a row fails, the run ends by
\* raising, the offset file is not written and the rows appended before the
\* failure are in the log; the next run that is delivered the same updates
\* and completes leaves exactly one row per row-producing update.
C8_AppendFailureFatal ==
    /\ fault[Job] = "append" =>
          /\ pc[Job] = "idle"
          /\ outcome[Job] = "raised"
          /\ offsetFile = start[Job]
          /\ Len(log) >= appended[Job]
          /\ \A k \in 1..appended[Job] :
                log[Len(log) - appended[Job] + k].update_id \in got[Job]
    /\ (Completed /\ recovering[Job] = "raised") => BatchSettled

\* A completed run after one that failed between the two rows of its batch.
C8_Witness ==
    /\ Completed
    /\ recovering[Job] = "raised"
    /\ Cardinality({i \in got[Job] : RowProducing(stream[i])}) = 2
    /\ Len(log) = 2

\* The rows and the prompt the tokens above stand for.
SetRow(i) ==
    [update_id |-> i, accession_number |-> <<Accession>>,
     suggested_event_type |-> <<PREF_CALL>>,
     corrected_event_type |-> << <<DIV_SUSPENSION>> >>]

OkRow(i) ==
    [update_id |-> i, accession_number |-> <<Accession>>,
     suggested_event_type |-> <<PREF_CALL>>, corrected_event_type |-> <<>>]

IrrelevantRow(i) ==
    [update_id |-> i, accession_number |-> <<Accession>>,
     suggested_event_type |-> <<PREF_CALL>>,
     corrected_event_type |-> << <<NOT_RELEVANT>> >>]

Prompt ==
    [method |-> "sendMessage", id |-> 0, text |-> <<"Which event type?">>,
     accession |-> <<Accession>>, suggested |-> <<PREF_CALL>>]

\* The rows with update id i, in the log or queued by the running job.
RowsOf(i) ==
    {log[k] : k \in {k \in 1..Len(log) : log[k].update_id = i}}
    \cup {new_rows[Job][k] :
             k \in {k \in 1..Len(new_rows[Job]) : new_rows[Job][k].update_id = i}}

IsPrompt(c) == c.method = "sendMessage"
IsAck(c) == c.method = "answerCallbackQuery"
IsButton(u) == u.cq /\ u.chat = ChatId

\* C9 (deferred correction).  A wrong:.. press never gets a row and gets
\* exactly one prompt; a set:.. press gets rows only of the form (its update
\* id, accession, suggested, corrected) and exactly one once its run has
\* completed; so after wrong then set the log has gained exactly one row.
C9_DeferredCorrection ==
    /\ \A i \in 1..Len(stream) :
          /\ Pressed(stream[i], TokWrong) => RowsOf(i) = {}
          /\ Pressed(stream[i], TokSet) =>
                /\ RowsOf(i) \subseteq {SetRow(i)}
                /\ (Completed /\ i \in got[Job]) => Count(log, i) = 1
    /\ Running =>
          /\ \A k \in 1..Len(sent[Job]) :
                IsPrompt(sent[Job][k]) => sent[Job][k] = Prompt
          /\ Len(SelectSeq(sent[Job], IsPrompt))
                = Cardinality({u.update_id :
                                 u \in {v \in Elems(Processed) : Pressed(v, TokWrong)}})
    /\ \A i, j \in 1..Len(stream) :
          (/\ Completed
           /\ {i, j} \subseteq got[Job]
           /\ Pressed(stream[i], TokWrong)
           /\ Pressed(stream[j], TokSet))
              => Count(log, i) + Count(log, j) = 1

\* wrong then set in one batch: an acknowledgement and the prompt, then the
\* acknowledgement of the set, and one row.
C9_Witness ==
    /\ pc[Job] = "save"
    /\ Len(updates[Job]) = 2
    /\ Pressed(updates[Job][1], TokWrong)
    /\ Pressed(updates[Job][2], TokSet)
    /\ log = <<SetRow(2)>>
    /\ Len(sent[Job]) = 3
    /\ sent[Job][2] = Prompt

\* The log as the running job found it.
StartLog == SubSeq(log, 1, Len(log) - appended[Job])

\* The text the k-th acknowledged button press is to get when it is the first
\* delivery of a not-yet-seen ok:.. or irrelevant:.. press.
FirstDelivery(B, k) ==
    /\ Count(StartLog, B[k].update_id) = 0
    /\ \A m \in 1..(k - 1) : B[m].update_id # B[k].update_id

\* C10 (the token decides the row).  An ok:.. press only gets the row with
\* corrected type null, an irrelevant:.. press only the row with the
\* NOT_RELEVANT sentinel, each with the update id, accession and suggested
\* type of the press and exactly one once its run has completed; every button
\* press the loop has gone through has been acknowledged once, the first
\* delivery of such a press with its thanks.
C10_TokenDecidesRow ==
    /\ \A i \in 1..Len(stream) :
          /\ Pressed(stream[i], TokOk) => RowsOf(i) \subseteq {OkRow(i)}
          /\ Pressed(stream[i], TokIrrelevant) =>
                RowsOf(i) \subseteq {IrrelevantRow(i)}
          /\ (/\ Pressed(stream[i], TokOk) \/ Pressed(stream[i], TokIrrelevant)
              /\ Completed
              /\ i \in got[Job]) => Count(log, i) = 1
    /\ Running =>
          LET B == SelectSeq(Processed, IsButton)
              A == SelectSeq(sent[Job], IsAck)
          IN  /\ Len(A) = Len(B)
              /\ \A k \in 1..Len(B) :
                    /\ A[k].id = B[k].cq_id
                    /\ (B[k].data = TokOk /\ FirstDelivery(B, k)) =>
                          A[k].text = <<"Thanks, marked as correct.">>
                    /\ (B[k].data = TokIrrelevant /\ FirstDelivery(B, k)) =>
                          A[k].text = <<"Thanks, marked as not relevant.">>

\* ok and irrelevant in one batch: two rows, two acknowledgements.
C10_Witness ==
    /\ pc[Job] = "save"
    /\ Len(updates[Job]) = 2
    /\ Pressed(updates[Job][1], TokOk)
    /\ Pressed(updates[Job][2], TokIrrelevant)
    /\ log = <<OkRow(1), IrrelevantRow(2)>>
    /\ Len(sent[Job]) = 2

\* A button press of the configured chat whose token has none of the four
\* recognized shapes.
Unrecognized(u) == IsButton(u) /\ u.data \in {TokUnknown, TokShort, TokEmpty}

\* C11 (defensive default).  A button press of the configured chat whose
\* token has another shape than the four recognized ones (unknown prefix, too
\* few fields, empty) gets no row and no prompt and is acknowledged, without
\* text, like every other press the loop has gone through; a run raises only
\* when a call failed, and a completed run has moved the offset past every
\* update of its batch.
C11_DefensiveDefault ==
    /\ \A i \in 1..Len(stream) : Unrecognized(stream[i]) => RowsOf(i) = {}
    /\ Running =>
          LET B == SelectSeq(Processed, IsButton)
              A == SelectSeq(sent[Job], IsAck)
          IN  /\ Len(A) = Len(B)
              /\ \A k \in 1..Len(B) :
                    /\ A[k].id = B[k].cq_id
                    /\ Unrecognized(B[k]) => A[k].text = <<>>
              /\ Len(SelectSeq(sent[Job], IsPrompt))
                    = Cardinality({u.update_id :
                                     u \in {v \in Elems(Processed) : Pressed(v, TokWrong)}})
    /\ outcome[Job] = "raised" => fault[Job] # "none"
    /\ Completed => \A i \in got[Job] : offsetFile # <<>> /\ offsetFile[1] > i

\* C12 (only presses of the configured chat are actionable).  An update that
\* is no button press of the configured chat gets no row and no prompt, and a
\* button press of another chat, which carries an id, is acknowledged: the
\* loop has acknowledged every button press it has gone through.
C12_OtherUpdatesAcknowledged ==
    /\ \A i \in 1..Len(stream) : ~IsButton(stream[i]) => RowsOf(i) = {}
    /\ Running =>
          /\ Len(SelectSeq(sent[Job], IsAck))
                = Cardinality({k \in 1..Len(Processed) :
                                 Processed[k].cq /\ Processed[k].cq_id # 0})
          /\ Len(SelectSeq(sent[Job], IsPrompt))
                <= Cardinality({k \in 1..Len(Processed) : IsButton(Processed[k])})

\* The controls of a keyboard, row after row.
RECURSIVE Controls(_)
Controls(k) == IF k = <<>> THEN <<>> ELSE Head(k) \o Controls(Tail(k))

\* The token the grammar gives candidate e in the keyboard being built.
SetToken(e) == "set:" \o accession \o ":" \o suggested \o ":" \o e

\* The members of the enumeration whose token is at most 64 long, in order.
Short(e) == Len(SetToken(e)) <= 64
FittingTypes == SelectSeq(ALL_EVENT_TYPES, Short)

\* C13 as stated (every known event type is offered).  For every accession
\* and every suggested type of the enumeration, the returned keyboard has
\* exactly one control per member of ALL_EVENT_TYPES, with the token
\* set:<accession>:<suggested>:<candidate>, and none for NOT_RELEVANT.
C13_EveryTypeOffered ==
    kpc = "done" =>
        LET c == Controls(keyboard)
        IN  /\ Len(c) = Len(ALL_EVENT_TYPES)
            /\ \A i \in 1..Len(c) :
                  c[i].callback_data = SetToken(ALL_EVENT_TYPES[i])
            /\ \A i \in 1..Len(c) :
                  c[i].callback_data # SetToken(NOT_RELEVANT)

\* C13 (amended).  The returned keyboard has exactly one control per member
\* of ALL_EVENT_TYPES whose token set:<accession>:<suggested>:<candidate> is
\* at most 64 long, in the order of the enumeration, and none for
\* NOT_RELEVANT; a member whose token is longer has no control.  Every member
\* has a control when accession and suggested type together are at most 35
\* long.
C13_EveryFittingTypeOffered ==
    kpc = "done" =>
        LET c == Controls(keyboard)
        IN  /\ Len(c) = Len(FittingTypes)
            /\ \A i \in 1..Len(c) :
                  /\ c[i].callback_data = SetToken(FittingTypes[i])
                  /\ c[i].callback_data # SetToken(NOT_RELEVANT)
            /\ Len(accession) + Len(suggested) <= 35
                  => Len(c) = Len(ALL_EVENT_TYPES)

\* A keyboard for an EDGAR accession number was returned with some members of
\* the enumeration offered and others left out.
C13_Witness ==
    /\ kpc = "done"
    /\ accession = Accession
    /\ Len(Controls(keyboard)) \in 1..(Len(ALL_EVENT_TYPES) - 1)

\* Position of token t among the tokens of the enumeration (0 = none).
TypeIndex(t) ==
    LET I == {i \in 1..Len(ALL_EVENT_TYPES) : SetToken(ALL_EVENT_TYPES[i]) = t}
    IN  IF I = {} THEN 0 ELSE CHOOSE i \in I : TRUE

\* C14 (token size limit).  At every point of the construction, every
\* control token is at most 64 long and is the whole token of a member of the
\* enumeration (never a truncated one), the controls are in enumeration
\* order, a member before the loop position is missing only if its token is
\* longer than 64, the open row holds fewer than 3 controls, and every row
\* of the keyboard holds between 1 and 3 controls.
C14_TokenSizeLimit ==
    kpc # "idle" =>
        LET c == Controls(keyboard) \o (IF kpc = "done" THEN <<>> ELSE row)
        IN  /\ \A i \in 1..Len(c) :
                  /\ Len(c[i].callback_data) <= 64
                  /\ TypeIndex(c[i].callback_data) \in 1..(ev - 1)
            /\ \A i, j \in 1..Len(c) :
                  i < j => TypeIndex(c[i].callback_data)
                              < TypeIndex(c[j].callback_data)
            /\ \A i \in 1..(ev - 1) :
                  Len(SetToken(ALL_EVENT_TYPES[i])) <= 64
                     => \E j \in 1..Len(c) :
                           c[j].callback_data = SetToken(ALL_EVENT_TYPES[i])
            /\ Len(row) < 3
            /\ \A k \in 1..Len(keyboard) : Len(keyboard[k]) \in 1..3

\* A returned keyboard in which a candidate was left out, others after it
\* were kept, and the last row is not full.
C14_Witness ==
    /\ kpc = "done"
    /\ \E i \in 1..(Len(ALL_EVENT_TYPES) - 1) :
          /\ Len(SetToken(ALL_EVENT_TYPES[i])) > 64
          /\ \E j \in (i + 1)..Len(ALL_EVENT_TYPES) :
                TypeIndex(Controls(keyboard)[Len(Controls(keyboard))].callback_data) = j
    /\ keyboard # <<>>
    /\ Len(keyboard[Len(keyboard)]) < 3
    /\ Len(keyboard) >= 2

\* C15 as stated (replay is idempotent).  After a run has completed on a
\* batch, a run that is delivered a batch whose update ids are all in the log
\* already appends no row and leaves the offset file as the first run wrote
\* it.
C15_ReplayIdempotent ==
    (Completed /\ recovering[Job] = "replay") =>
        /\ appended[Job] = 0
        /\ offsetFile = start[Job]

\* C15 (amended).  After a run has completed on a batch, a run that is
\* delivered a batch whose update ids are all in the log already appends no
\* row; it leaves the offset file as the first run wrote it when every id of
\* the batch is below that offset, and else moves it to one past the
\* greatest id of the batch.
C15_ReplayBelowOffset ==
    (Completed /\ recovering[Job] = "replay") =>
        /\ appended[Job] = 0
        /\ start[Job] # <<>>
        /\ (\A i \in got[Job] : i < start[Job][1]) => offsetFile = start[Job]
        /\ (\E i \in got[Job] : i >= start[Job][1])
              => offsetFile = <<MaxOf(got[Job]) + 1>>

\* A replay of updates below the offset has completed.
C15_Witness ==
    /\ Completed
    /\ recovering[Job] = "replay"
    /\ \A i \in got[Job] : i < start[Job][1]

\* The update ids of the presses the calls of s sent a prompt for: the prompt
\* follows the acknowledgement of its press.
PromptedAt(s, k) == s[k - 1].id

\* The fetched updates that are wrong:.. presses of the configured chat.
WrongIds == {u.update_id : u \in {v \in Elems(updates[Job]) : Pressed(v, TokWrong)}}

LoopDone == pc[Job] \in {"append", "save"}

\* What holds of a prompt the Bot API rejected: its press was acknowledged
\* before, it is marked processed, and the run sends no other prompt for it.
RejectedIsProcessed ==
    Running =>
        \A k \in rejected[Job] :
            /\ IsPrompt(sent[Job][k])
            /\ IsAck(sent[Job][k - 1])
            /\ PromptedAt(sent[Job], k) \in seen[Job]
            /\ \A m \in 2..Len(sent[Job]) :
                  (m # k /\ IsPrompt(sent[Job][m]))
                     => PromptedAt(sent[Job], m) # PromptedAt(sent[Job], k)

\* C16 as stated (a failed prompt is lost).  If sending the prompt of a wrong
\* press fails, the press has been acknowledged and is marked processed, and
\* no prompt is sent for it later: a run that is delivered the same updates
\* after the send raised leaves one wrong press without a prompt.
C16_FailedPromptIsLost ==
    /\ RejectedIsProcessed
    /\ (LoopDone /\ recovering[Job] = "prompt")
          => Len(SelectSeq(sent[Job], IsPrompt)) < Cardinality(WrongIds)

\* C16 (amended).  If the Bot API rejects the prompt of a wrong press
\* (sendMessage returns an error status), the press has been acknowledged and
\* is marked processed, the run sends no other prompt for it, and the offset
\* the run is about to save passes it.  If sending the prompt raises, the run
\* ends without appending a row or writing the offset, and a run that is
\* delivered the same updates afterwards sends a prompt for every wrong
\* press of the batch again.
C16_RejectedPromptIsLost ==
    /\ RejectedIsProcessed
    /\ pc[Job] = "save" =>
          \A k \in rejected[Job] :
              PromptedAt(sent[Job], k) <= max_update_id[Job]
    /\ (outcome[Job] = "raised" /\ fault[Job] = "sendMessage")
          => (appended[Job] = 0 /\ offsetFile = start[Job])
    /\ (LoopDone /\ recovering[Job] = "prompt")
          => Len(SelectSeq(sent[Job], IsPrompt)) = Cardinality(WrongIds)

\* After a run in which sending the prompt raised, the same updates are
\* delivered again and this time the Bot API rejects the prompt.
C16_Witness ==
    /\ pc[Job] = "save"
    /\ recovering[Job] = "prompt"
    /\ rejected[Job] # {}

\* The log holds two rows for one update id.
TwoRows == \E i \in 1..Len(stream) : Count(log, i) >= 2

\* C17 (concurrent invocations are unsafe).  With two invocations interleaved
\* on the same files a state with two rows for one update id is reachable;
\* it is reached only when a run has started while another one was running,
\* so runs that the caller serializes never produce it.
C17_TwoRowsOnlyByOverlap == TwoRows => overlap

\* Both invocations were delivered the same update, both built seen before
\* either appended, and the log now holds two rows for it.
C17_Witness ==
    /\ TwoRows
    /\ \E i \in got[1] \cap got[2] :
          /\ Count(log, i) = 2
          /\ appended[1] > 0
          /\ appended[2] > 0

\* classify_event has returned; what it returned.
Returned == result # <<>>
ReturnedType == result[1][1]
ReturnedConf == result[1][2]

\* How many patterns of the i-th rule of the table match in the text.
HitsOf(i) ==
    IF plain_text.kind = "empty" THEN 0
    ELSE plain_text.hits[RULES[i].event_type]

\* The rules with at least one matching pattern.
Matching == {i \in 1..Len(RULES) : HitsOf(i) > 0}

\* min(cap, base + per_hit * (hits - 1)) of the i-th rule, in hundredths.
Score(i) == MinOf({100, 30 + 20 * (HitsOf(i) - 1)})

\* C18 (fallback).  For a text in which no rule has a matching pattern, the
\* empty and the white-space-only text included, classify_event returns
\* GENERIC_NEWS with confidence 0.2; when a rule has a matching pattern it
\* returns the event type of a matching rule with a confidence above 0.2.
C18_Fallback ==
    Returned =>
        /\ Matching = {} => result[1] = <<GENERIC_NEWS, 20>>
        /\ Matching # {} =>
              /\ ReturnedType \in {RULES[i].event_type : i \in Matching}
              /\ ReturnedType # GENERIC_NEWS
              /\ ReturnedConf > 20

\* A text with words none of which a pattern matches was classified.
C18_Witness ==
    /\ Returned
    /\ plain_text.kind = "words"
    /\ Matching = {}
    /\ result[1] = <<GENERIC_NEWS, 20>>

\* The text with every hit count above h cut down to h.
Capped(text, h) ==
    [text EXCEPT !.hits = [t \in DOMAIN text.hits |->
                              IF text.hits[t] > h THEN h ELSE text.hits[t]]]

\* C19 (confidence range).  The returned confidence lies in [0, 1]; when a
\* rule matches it is min(cap, base + per_hit * (hits - 1)) of the rule whose
\* type is returned; hits beyond those that reach the cap (5) change
\* nothing: the confidence of such a rule is the cap and the result is that
\* of the text with 5 hits for it.
C19_ConfidenceRange ==
    Returned =>
        /\ ReturnedConf \in 0..100
        /\ Matching # {} =>
              \E i \in Matching :
                  /\ RULES[i].event_type = ReturnedType
                  /\ ReturnedConf = Score(i)
        /\ (\E i \in Matching : HitsOf(i) >= 5) => ReturnedConf = 100
        /\ result[1] = ClassifyEvent(Capped(plain_text, 5), RULES)

\* A text in which a rule has more hits than reach the cap was classified.
C19_Witness ==
    /\ Returned
    /\ \E i \in Matching : HitsOf(i) > 5 /\ RULES[i].event_type = ReturnedType
    /\ ReturnedConf = 100

\* Rule i wins over rule j: a greater confidence, or the same confidence
\* and a strictly higher priority.
Beats(i, j) ==
    \/ Score(i) > Score(j)
    \/ Score(i) = Score(j) /\ RULES[i].priority > RULES[j].priority

\* C20 (deterministic, order-independent selection).  In whatever order the
\* rules are scanned, classify_event returns the type and the confidence of
\* the one matching rule that wins over every other matching rule: the
\* greatest confidence, and among equal confidences the strictly higher
\* priority.  The result is that of the table as it is written.
C20_OrderIndependent ==
    (Returned /\ Matching # {}) =>
        /\ \E i \in Matching :
              /\ \A j \in Matching \ {i} : Beats(i, j)
              /\ result[1] = <<RULES[i].event_type, Score(i)>>
        /\ result[1] = ClassifyEvent(plain_text, RULES)

\* Two rules tie on confidence and the one of higher priority, which stands
\* later in the table, is returned.
C20_Witness ==
    /\ Returned
    /\ \E i, j \in Matching :
          /\ i < j
          /\ Score(i) = Score(j)
          /\ RULES[j].priority > RULES[i].priority
          /\ ReturnedType = RULES[j].event_type

\* ---- C21, C22: extract_snippets

\* extract_snippets has returned.
Extracted == epc = "done"

\* C21: for every text, phrase list and max_snippets the result of
\* extract_snippets has at most max_snippets entries, no two of its entries
\* come from the same offset of the normalized text (the offset at which
\* their phrase was found), no two of its entries are equal strings, and it
\* is empty when the text or the phrase list is empty.
C21_BoundedDistinctSnippets ==
    Extracted =>
        /\ Len(snippets) <= max_snippets
        /\ Len(found_at) = Len(snippets)
        /\ \A i, j \in 1..Len(snippets) :
              i # j => found_at[i] # found_at[j] /\ snippets[i] # snippets[j]
        /\ (snippet_text = <<>> \/ phrases = <<>>) => snippets = <<>>

\* Two phrases that are found at the same offset, and two that are found at
\* different offsets with the same window around them: one snippet each.
C21_Witness ==
    /\ Extracted
    /\ Len(phrases) = 2
    /\ max_snippets = 2
    /\ Len(snippets) = 1
    /\ Find(JoinSplit(Lower(snippet_text)), Lower(phrases[1])) >= 0
    /\ Find(JoinSplit(Lower(snippet_text)), Lower(phrases[2])) >= 0
    /\ phrases[1] # phrases[2]

\* C22: for every text, phrase list, window and max_len, 0, 1 and 2 among
\* them, every entry of the result is at most max_len long.
C22_LengthWithinMaxLen ==
    Extracted => \A i \in 1..Len(snippets) : Len(snippets[i]) <= max_snippet_len

\* ---- C23: run_once

\* The accession numbers that the iteration at hand sends an alert for.
Alerting ==
    IF todo = <<>> THEN {}
    ELSE IF digest_mode THEN AccessionsOf(Head(todo))
    ELSE {Head(todo).accession_number}

\* In per-filing mode the accession number is in seen when the send is
\* attempted.
SeenBeforeSend == rpc = "send" => Alerting \subseteq seen_accessions

\* In digest mode an accession number joins seen only in a step that sent
\* an alert for it.
SeenOnlyAfterSent ==
    [][digest_mode =>
         \A a \in FiledAccessions :
            a \in seen_accessions' /\ a \notin seen_accessions
               => alerted'[a] = alerted[a] + 1]_vars

\* What a call finds in seen it never alerts for: nothing is to do for it.
SeenAtCallNeverAlerted ==
    [][rpc = "idle" =>
         \A i \in 1..Len(todo') :
            (IF digest_mode THEN AccessionsOf(todo'[i])
             ELSE {todo'[i].accession_number}) \cap seen_accessions = {}]_vars

\* C23: across the calls of run_once, each with the seen set the call before
\* it returned, no alert is sent for an accession number that is in seen, and
\* for no accession number more than one alert is sent successfully.
C23_AlertedAtMostOnce ==
    /\ \A a \in FiledAccessions : alerted[a] <= 1
    /\ (rpc = "loop" /\ digest_mode) => Alerting \cap seen_accessions = {}

\* ---- C24: _send_message

\* _send_message returned True, returned False, raised.
ReturnedTrue == send_result = <<"True">>
ReturnedFalse == send_result = <<"False">>
Raised == Len(send_result) = 2

\* _send_message returned or raised.
SendEnded == send_result # <<>>

\* How many times bot.send_message was called.
SendAttempts == Len(errors) + (IF ReturnedTrue THEN 1 ELSE 0)

\* What holds of a call of _send_message at every moment: at most 4 sends;
\* the waits so far are the first of 30, 60, 90, one before each send but the
\* first; every error that was followed by another send is one that _is_429
\* recognizes; True is returned with the first send that succeeds; the error
\* raised is the last one, and it is one that _is_429 does not recognize or
\* the fourth.
SendSafe ==
    /\ SendAttempts <= 4
    /\ Len(slept) <= 3
    /\ slept = SubSeq(<<30, 60, 90>>, 1, Len(slept))
    /\ Len(slept) = (IF SendEnded /\ SendAttempts > 0
                     THEN SendAttempts - 1 ELSE Len(errors))
    /\ \A i \in 1..Len(errors) :
          (i < Len(errors) \/ ~Raised) => Is429(errors[i])
    /\ Raised
          => /\ errors # <<>>
             /\ send_result[2] = errors[Len(errors)]
             /\ ~Is429(errors[Len(errors)]) \/ Len(errors) = 4
    /\ ReturnedFalse => ~configured /\ SendAttempts = 0

\* C24: _send_message retries only on rate limiting and always terminates:
\* it sends at most 4 times, waits 30, 60 and 90 seconds before the second,
\* third and fourth send, sends again only after an error recognized as a
\* 429, returns True at the first send that succeeds, raises the error on any
\* other error and on the fourth rate-limit error.
C24_RetryOnlyOnRateLimit == []SendSafe /\ <>SendEnded

\* Three rate-limit errors, the three waits, and a fourth one that is raised.
C24_Witness ==
    /\ Len(errors) = 4
    /\ slept = <<30, 60, 90>>
    /\ Raised
    /\ send_result[2] = errors[4]
    /\ Is429(errors[4])
    /\ errors[1] # errors[2]

\* ---- C25: SecHttpClient.get

\* The answers after which the claim lets get try again: status 429, a 5xx
\* status, a transport error.
Retryable(r) ==
    \/ r.kind = "exception"
    \/ r.status_code = 429
    \/ r.status_code \in {500, 503}

\* A response that is an error for none of the callers.
Successful(r) == r.kind = "response" /\ r.status_code \in {200, 204}

\* get made at most 3 requests, slept 1 s and then 2 s between them, raises
\* for the third answer when that is a failure, and returns the body of the
\* first successful response.
GetBounded ==
    /\ Len(responses) <= 3
    /\ delays = SubSeq(<<1, 2>>, 1, Len(delays))
    /\ \A i \in 1..Len(responses) :
          Successful(responses[i])
             => i = Len(responses) /\ get_result = <<"content", responses[i]>>
    /\ (Len(responses) = 3 /\ ~Successful(responses[3]))
          => get_result = <<"raise", responses[3]>>

\* C25: SecHttpClient.get ends after at most 3 requests: it tries again,
\* after 1 s and then 2 s, only when the answer had status 429 or 5xx or the
\* request raised a transport error; any other error status, such as 404, is
\* raised without another request; the third failure is raised, and the body
\* of the first successful response is returned.
C25_RetryOnlyOn429Or5xx ==
    /\ GetBounded
    /\ \A i \in 1..Len(responses) :
          ~Retryable(responses[i]) => i = Len(responses) /\ get_result # <<>>

====
